---- MODULE Spec2Model ----
(***************************************************************************)
(* The recurrent cells of h_cell.py: LSTMCell, LN_LSTMCell and H_LSTMCell. *)
(*                                                                         *)
(* One cell instance is constructed (Init) and then called a bounded       *)
(* number of times, as the timesteps of an unrolled loop do.  A call is    *)
(* RNNCell.__call__: it opens the cell's variable scope (reusing variables *)
(* once the layer is built) and runs the cell's call method.               *)
(*                                                                         *)
(* Tensors are rows (batch size 1) of integers: every value is kept on the *)
(* unit grid, so sigmoid, tanh and the layer normalization round to the    *)
(* nearest integer.  A variable is a shape and the initializer that gave   *)
(* it its value.                                                           *)
(* An optional value (None or a value) is a sequence of length 0 or 1.     *)
(***************************************************************************)
EXTENDS Integers, Sequences, FiniteSets, TLC

VARIABLES
  self,      \* the cell object: constructor arguments and lazily set fields
  store,     \* the graph's variable store: name -> [shape, fill], fill the initializer
  weights,   \* self._trainable_weights, the variables the cell owns
  calls,     \* number of invocations made so far
  last       \* what the latest invocation read, computed and returned

vars == <<self, store, weights, calls, last>>

\* ------------------------------------------------------------------ bounds
MaxCalls == 2
MaxUnits == 2

None == <<>>
Some(x) == <<x>>

\* constructor arguments explored
UnitsSet == 1..MaxUnits
NumProjSet == {None, Some(0), Some(1), Some(2)}
CellClipSet == {None, Some(0), Some(1)}
ProjClipSet == {None, Some(0), Some(1)}
\* call arguments explored: the value filling the input row, the value a
\* randomly initialized variable is filled with, the pattern of a state
InputSize == 1
InputVals == {-1, 1}
WeightVals == {-1, 2}
Patterns == {"zeros", "ramp", "alt"}

\* ------------------------------------------------------- tensor arithmetic
Min(a, b) == IF a < b THEN a ELSE b
Max(a, b) == IF a > b THEN a ELSE b
Sign(x) == IF x > 0 THEN 1 ELSE IF x < 0 THEN -1 ELSE 0

RECURSIVE reduce_sum(_)
reduce_sum(t) == IF t = <<>> THEN 0 ELSE Head(t) + reduce_sum(Tail(t))

Fill(len, v) == [k \in 1..len |-> v]

\* math_ops.sigmoid on the unit grid: sigmoid(x) >= 0.5 iff x >= 0
sigmoid_scalar(x) == IF x >= 0 THEN 1 ELSE 0
sigmoid(t) == [k \in DOMAIN t |-> sigmoid_scalar(t[k])]

\* self._activation (math_ops.tanh) on the unit grid
activation(t) == [k \in DOMAIN t |-> Sign(t[k])]

\* elementwise ops on rows of equal length
add(a, b) == [k \in DOMAIN a |-> a[k] + b[k]]
multiply(a, b) == [k \in DOMAIN a |-> a[k] * b[k]]
add_scalar(a, s) == [k \in DOMAIN a |-> a[k] + s]

\* clip_ops.clip_by_value(t, lo, hi)
clip_by_value(t, lo, hi) == [k \in DOMAIN t |-> Max(Min(t[k], hi), lo)]

\* array_ops.split(value, 4, axis=1): the part-th quarter, part in 1..4
split4(t, part) == SubSeq(t, (part - 1) * (Len(t) \div 4) + 1, part * (Len(t) \div 4))

\* python slices t[:, 0:n] and t[:, n:]
slice_head(t, n) == SubSeq(t, 1, Min(n, Len(t)))
slice_tail(t, n) == SubSeq(t, n + 1, Len(t))

\* initializers: a constant one fills the variable with its value; a random
\* one (the scope's default initializer, random_normal) gives neighbouring
\* columns different values, here w and -w in turn
constant_initializer(value) == [random |-> FALSE, value |-> value]
random_initializer(w) == [random |-> TRUE, value |-> w]
initial_value(init, k) == IF init.random /\ k % 2 = 0 THEN -init.value ELSE init.value

\* the value of a variable: the row its initializer gave it
var_row(st, name) ==
  [k \in 1..st[name].shape[Len(st[name].shape)] |-> initial_value(st[name].fill, k)]

\* math_ops.matmul(x, W) of a row x with a variable W of shape [rows, cols]
matmul(st, x, name) ==
  [k \in 1..st[name].shape[2] |-> initial_value(st[name].fill, k) * reduce_sum(x)]
matmul_ok(st, x, name) == Len(x) = st[name].shape[1]

\* --------------------------------------------------------- variable scopes
\* vs.get_variable under the current scope's reuse flag, wrapped by the cell's
\* custom getter _rnn_get_variable, which records the variable as a weight.
\* Without reuse an existing variable is an error; with reuse a missing one is.
get_variable_mutant(fr, name, shape, fill) ==
  IF fr.err /= "ok" THEN fr
  ELSE IF (fr.scope \o name) \in DOMAIN fr.store
  THEN IF fr.reuse THEN fr
       ELSE [fr EXCEPT !.err = "ValueError: variable already exists"]
  ELSE IF fr.reuse
       THEN [fr EXCEPT !.err = "ValueError: variable does not exist"]
       ELSE [fr EXCEPT !.store = ((fr.scope \o name) :> [shape |-> shape, fill |-> fill]) @@ @]
get_variable(fr, name, shape, fill) ==
  IF fr.err /= "ok" THEN fr
  ELSE IF (fr.scope \o name) \in DOMAIN fr.store
  THEN IF fr.reuse
       THEN [fr EXCEPT !.weights = @ \cup {fr.scope \o name}]
       ELSE [fr EXCEPT !.err = "ValueError: variable already exists"]
  ELSE IF fr.reuse
       THEN [fr EXCEPT !.err = "ValueError: variable does not exist"]
       ELSE [fr EXCEPT !.store = ((fr.scope \o name) :> [shape |-> shape, fill |-> fill]) @@ @,
                       !.weights = @ \cup {fr.scope \o name}]

\* the frame of one invocation: the cell, the graph state it works on, the
\* arguments, and the locals of call (unset locals are None)
Frame(cell, st, wts, scope, reuse, inputs, state, w) ==
  [self |-> cell, store |-> st, weights |-> wts, scope |-> scope, reuse |-> reuse,
   err |-> "ok", used |-> {}, inputs |-> inputs, state |-> state, w |-> w,
   c_prev |-> None, m_prev |-> None, i |-> None, j |-> None, f |-> None, o |-> None,
   forget_gate |-> None, input_gate |-> None, c_new |-> None, c |-> None,
   m_cell |-> None, m_proj |-> None, m |-> None, new_state |-> None,
   hyper_state |-> None, h_out |-> None, new_hyper_state |-> None,
   peep_f |-> None, peep_i |-> None, peep_o |-> None,
   ret |-> None, acc |-> None]

\* self.<field> = value, once the right-hand side was built without error
set_field(g, field, value) ==
  IF g.err /= "ok" THEN g ELSE [g EXCEPT !.self[field] = value]

\* leaving a `with vs.variable_scope(...)` block
leave_scope(g, scope) == [g EXCEPT !.scope = scope]

\* ------------------------------------------------------------------ _Linear
\* _Linear.__init__(args, output_size, build_bias): the kernel over the summed
\* argument widths and, if asked, a zero bias
Linear_init(fr, total_arg_size, output_size, build_bias) ==
  IF build_bias
  THEN get_variable(get_variable(fr, "kernel", <<total_arg_size, output_size>>, random_initializer(fr.w)),
                    "bias", <<output_size>>, constant_initializer(0))
  ELSE get_variable(fr, "kernel", <<total_arg_size, output_size>>, random_initializer(fr.w))

Linear_obj(scope, build_bias) ==
  [weights |-> scope \o "kernel", biases |-> scope \o "bias", build_bias |-> build_bias]

\* _Linear.__call__(args): matmul(concat(args, 1), weights) [+ biases]
Linear_call(st, lin, x) ==
  IF lin.build_bias
  THEN add(matmul(st, x, lin.weights), var_row(st, lin.biases))
  ELSE matmul(st, x, lin.weights)
Linear_used(lin) == IF lin.build_bias THEN {lin.weights, lin.biases} ELSE {lin.weights}

\* ------------------------------------------------------ Layer_Normalization
\* Layer_Normalization.__init__(dim, scope): gain (ones) and bias (zeros)
LN_init(fr, dim, scope) ==
  get_variable(get_variable(fr, scope \o "/gain", <<dim>>, constant_initializer(1)),
               scope \o "/bias", <<dim>>, constant_initializer(0))
LN_obj(prefix, scope) == [g |-> prefix \o scope \o "/gain", b |-> prefix \o scope \o "/bias"]
LN_used(ln) == {ln.g, ln.b}

\* |q| rounded to the nearest integer, for q^2 = num / den
RoundRoot(num, den, bound) ==
  CHOOSE k \in 0..bound : (k = 0 \/ (2*k - 1) * (2*k - 1) * den <= 4 * num)
                          /\ 4 * num < (2*k + 1) * (2*k + 1) * den

\* with d[k] = n * t[k] - sum(t), the deviations times n, and dd their sum of
\* squares: (t[k] - mean) / sqrt(variance) = d[k] * sqrt(n / dd)
deviations(t) == [k \in DOMAIN t |-> Len(t) * t[k] - reduce_sum(t)]
squares(d) == reduce_sum([k \in DOMAIN d |-> d[k] * d[k]])
scale_deviations(d, dd) ==
  [k \in DOMAIN d |-> IF dd = 0 THEN 0 ELSE Sign(d[k]) * RoundRoot(d[k] * d[k] * Len(d), dd, Len(d))]

\* (inputs - mean) / sqrt(variance + epsilon) over axis 1, on the unit grid;
\* epsilon only keeps a constant row from dividing by zero
normalize(t) == scale_deviations(deviations(t), squares(deviations(t)))

\* Layer_Normalization.__call__(inputs): norm_inputs * g + b
LN_call(st, ln, t) == add(multiply(normalize(t), var_row(st, ln.g)), var_row(st, ln.b))

\* ----------------------------------------------------------------- LSTMCell
OptVal(opt, default) == IF opt = None THEN default ELSE opt[1]
\* python truthiness of an optional integer (`if num_proj:`)
Truthy(opt) == opt /= None /\ opt[1] /= 0

forget_bias == 1

\* the sizes set by __init__ from num_proj
StateSize(num_units, num_proj, state_is_tuple) ==
  IF Truthy(num_proj)
  THEN IF state_is_tuple THEN [is_tuple |-> TRUE, cols |-> <<num_units, num_proj[1]>>]
                         ELSE [is_tuple |-> FALSE, cols |-> <<num_units + num_proj[1]>>]
  ELSE IF state_is_tuple THEN [is_tuple |-> TRUE, cols |-> <<num_units, num_units>>]
                         ELSE [is_tuple |-> FALSE, cols |-> <<2 * num_units>>]
OutputSize(num_units, num_proj) == IF Truthy(num_proj) THEN num_proj[1] ELSE num_units

LSTMCell(num_units, use_peepholes, cell_clip, num_proj, proj_clip, state_is_tuple) ==
  [kind |-> "LSTMCell", built |-> FALSE,
   num_units |-> num_units, use_peepholes |-> use_peepholes, cell_clip |-> cell_clip,
   num_proj |-> num_proj, proj_clip |-> proj_clip, state_is_tuple |-> state_is_tuple,
   state_size |-> StateSize(num_units, num_proj, state_is_tuple),
   output_size |-> OutputSize(num_units, num_proj),
   linear1 |-> None, linear2 |-> None,
   w_f_diag |-> None, w_i_diag |-> None, w_o_diag |-> None]

\* (c_prev, m_prev) = state, or the two slices of a concatenated state
split_state(fr) ==
  LET num_proj == OptVal(fr.self.num_proj, fr.self.num_units)
      n == fr.self.num_units
  IN  IF fr.self.state_is_tuple
      THEN [fr EXCEPT !.c_prev = fr.state.parts[1], !.m_prev = fr.state.parts[2]]
      ELSE IF n + num_proj > Len(fr.state.parts[1])
      THEN [fr EXCEPT !.err = "InvalidArgumentError: slice out of range"]
      ELSE [fr EXCEPT !.c_prev = SubSeq(fr.state.parts[1], 1, n),
                      !.m_prev = SubSeq(fr.state.parts[1], n + 1, n + num_proj)]

\* if self._linear1 is None: self._linear1 = _Linear([inputs, m_prev], 4 * num_units, True)
make_linear1(fr) ==
  IF fr.err /= "ok" \/ fr.self.linear1 /= None THEN fr
  ELSE set_field(Linear_init(fr, Len(fr.inputs) + Len(fr.m_prev), 4 * fr.self.num_units, TRUE),
                 "linear1", Some(Linear_obj(fr.scope, TRUE)))

\* i, j, f, o = array_ops.split(value=lstm_matrix, num_or_size_splits=4, axis=1)
split_gates(fr, mat) ==
  [fr EXCEPT !.i = split4(mat, 1), !.j = split4(mat, 2),
             !.f = split4(mat, 3), !.o = split4(mat, 4)]

\* lstm_matrix = self._linear1([inputs, m_prev]), then the split into gates
lstm_matrix(fr) ==
  IF fr.err /= "ok" THEN fr
  ELSE IF ~matmul_ok(fr.store, fr.inputs \o fr.m_prev, fr.self.linear1[1].weights)
  THEN [fr EXCEPT !.err = "ValueError: matmul shapes incompatible"]
  ELSE split_gates([fr EXCEPT !.used = @ \cup Linear_used(fr.self.linear1[1])],
                   Linear_call(fr.store, fr.self.linear1[1], fr.inputs \o fr.m_prev))

\* if self._use_peepholes and not self._w_f_diag: the three diagonal vectors
make_diag(fr) ==
  IF fr.err /= "ok" \/ ~fr.self.use_peepholes \/ fr.self.w_f_diag /= None THEN fr
  ELSE set_field(set_field(set_field(
         get_variable(get_variable(get_variable(fr,
           "w_f_diag", <<fr.self.num_units>>, random_initializer(fr.w)),
           "w_i_diag", <<fr.self.num_units>>, random_initializer(fr.w)),
           "w_o_diag", <<fr.self.num_units>>, random_initializer(fr.w)),
         "w_f_diag", Some(fr.scope \o "w_f_diag")),
         "w_i_diag", Some(fr.scope \o "w_i_diag")),
         "w_o_diag", Some(fr.scope \o "w_o_diag"))

\* the new cell state and the two gates it was computed from
new_c(fr, forget_gate, input_gate, c) ==
  [fr EXCEPT !.forget_gate = forget_gate, !.input_gate = input_gate, !.c_new = c, !.c = c]

\* c = forget_gate * c_prev + input_gate * activation(j)
cell_state(fr, forget_gate, input_gate) ==
  new_c(fr, forget_gate, input_gate,
        add(multiply(forget_gate, fr.c_prev), multiply(input_gate, activation(fr.j))))

\* c = sigmoid(f + forget_bias [+ w_f_diag * c_prev]) * c_prev
\*     + sigmoid(i [+ w_i_diag * c_prev]) * activation(j)
lstm_new_c(fr) ==
  IF fr.err /= "ok" THEN fr
  ELSE IF fr.self.use_peepholes
  THEN cell_state([fr EXCEPT !.used = @ \cup {fr.self.w_f_diag[1], fr.self.w_i_diag[1]},
                             !.peep_f = multiply(var_row(fr.store, fr.self.w_f_diag[1]), fr.c_prev),
                             !.peep_i = multiply(var_row(fr.store, fr.self.w_i_diag[1]), fr.c_prev)],
                  sigmoid(add(add_scalar(fr.f, forget_bias),
                              multiply(var_row(fr.store, fr.self.w_f_diag[1]), fr.c_prev))),
                  sigmoid(add(fr.i, multiply(var_row(fr.store, fr.self.w_i_diag[1]), fr.c_prev))))
  ELSE cell_state(fr, sigmoid(add_scalar(fr.f, forget_bias)), sigmoid(fr.i))

\* if self._cell_clip is not None: c = clip_by_value(c, -cell_clip, cell_clip)
lstm_clip_c_mutant(fr) == fr
lstm_clip_c(fr) ==
  IF fr.err /= "ok" \/ fr.self.cell_clip = None THEN fr
  ELSE [fr EXCEPT !.c = clip_by_value(fr.c, -fr.self.cell_clip[1], fr.self.cell_clip[1])]

\* m = output_gate * activation(c)
cell_output(fr, output_gate) ==
  [fr EXCEPT !.m_cell = multiply(output_gate, activation(fr.c)),
             !.m = multiply(output_gate, activation(fr.c))]

\* m = sigmoid(o [+ w_o_diag * c]) * activation(c)
lstm_m(fr) ==
  IF fr.err /= "ok" THEN fr
  ELSE IF fr.self.use_peepholes
  THEN cell_output([fr EXCEPT !.used = @ \cup {fr.self.w_o_diag[1]},
                              !.peep_o = multiply(var_row(fr.store, fr.self.w_o_diag[1]), fr.c)],
                   sigmoid(add(fr.o, multiply(var_row(fr.store, fr.self.w_o_diag[1]), fr.c))))
  ELSE cell_output(fr, sigmoid(fr.o))

\* if self._linear2 is None: with vs.variable_scope("projection"):
\*   self._linear2 = _Linear(m, self._num_proj, False)
make_linear2(fr) ==
  IF fr.self.linear2 /= None THEN fr
  ELSE leave_scope(set_field(Linear_init([fr EXCEPT !.scope = @ \o "projection/"],
                                         Len(fr.m), fr.self.num_proj[1], FALSE),
                             "linear2", Some(Linear_obj(fr.scope \o "projection/", FALSE))),
                   fr.scope)

\* m = self._linear2(m); if self._proj_clip is not None:
\*   m = clip_by_value(m, -self._proj_clip, self._proj_clip)
projection_mutant(fr, m) ==
  [fr EXCEPT !.m_proj = m, !.m = m, !.used = @ \cup Linear_used(fr.self.linear2[1])]
projection(fr, m) ==
  [fr EXCEPT !.m_proj = m,
             !.m = IF fr.self.proj_clip = None THEN m
                   ELSE clip_by_value(m, -fr.self.proj_clip[1], fr.self.proj_clip[1]),
             !.used = @ \cup Linear_used(fr.self.linear2[1])]

project(fr) ==
  IF fr.err /= "ok" THEN fr
  ELSE projection(fr, Linear_call(fr.store, fr.self.linear2[1], fr.m))

\* if self._num_proj is not None: the projection block
lstm_proj(fr) ==
  IF fr.err /= "ok" \/ fr.self.num_proj = None THEN fr
  ELSE project(make_linear2(fr))

\* new_state = LSTMStateTuple(c, m) if state_is_tuple else concat([c, m], 1)
lstm_new_state(fr) ==
  IF fr.err /= "ok" THEN fr
  ELSE [fr EXCEPT !.new_state = Some(IF fr.self.state_is_tuple
                                     THEN [is_tuple |-> TRUE, parts |-> <<fr.c, fr.m>>]
                                     ELSE [is_tuple |-> FALSE, parts |-> <<fr.c \o fr.m>>])]

\* LSTMCell.call(inputs, state)
LSTMCell_call(fr) ==
  lstm_new_state(lstm_proj(lstm_m(lstm_clip_c(lstm_new_c(
    make_diag(lstm_matrix(make_linear1(split_state(fr)))))))))

\* -------------------------------------------------------------- LN_LSTMCell
LN_LSTMCell(num_units, use_peepholes, cell_clip, num_proj, proj_clip, state_is_tuple) ==
  [kind |-> "LN_LSTMCell", built |-> FALSE,
   num_units |-> num_units, use_peepholes |-> use_peepholes, cell_clip |-> cell_clip,
   num_proj |-> num_proj, proj_clip |-> proj_clip, state_is_tuple |-> state_is_tuple,
   state_size |-> StateSize(num_units, num_proj, state_is_tuple),
   output_size |-> OutputSize(num_units, num_proj),
   linear1 |-> None, linear2 |-> None,
   w_f_diag |-> None, w_i_diag |-> None, w_o_diag |-> None,
   ln_i |-> None, ln_j |-> None, ln_f |-> None, ln_o |-> None,
   ln_p1 |-> None, ln_p2 |-> None, ln_c |-> None]

\* if self._ln_x is None: self._ln_x = Layer_Normalization([num_units], scope)
make_ln(fr, field, scope) ==
  IF fr.err /= "ok" \/ fr.self[field] /= None THEN fr
  ELSE set_field(LN_init(fr, fr.self.num_units, scope), field, Some(LN_obj(fr.scope, scope)))

\* i, j, f, o = self._ln_i(i), self._ln_j(j), self._ln_f(f), self._ln_o(o)
apply_gate_norms(fr) ==
  IF fr.err /= "ok" THEN fr
  ELSE [fr EXCEPT !.i = LN_call(fr.store, fr.self.ln_i[1], fr.i),
                  !.j = LN_call(fr.store, fr.self.ln_j[1], fr.j),
                  !.f = LN_call(fr.store, fr.self.ln_f[1], fr.f),
                  !.o = LN_call(fr.store, fr.self.ln_o[1], fr.o),
                  !.used = @ \cup LN_used(fr.self.ln_i[1]) \cup LN_used(fr.self.ln_j[1])
                             \cup LN_used(fr.self.ln_f[1]) \cup LN_used(fr.self.ln_o[1])]

\* the four gate normalizations are made once, then applied
norm_gates(fr) ==
  apply_gate_norms(make_ln(make_ln(make_ln(make_ln(fr, "ln_i", "i_norm"), "ln_j", "j_norm"),
                                   "ln_f", "f_norm"), "ln_o", "o_norm"))

\* if self._use_peepholes and not self._w_f_diag: the three diagonal vectors and,
\* in the same block, the two peephole normalizations
ln_make_diag(fr) ==
  IF fr.err /= "ok" \/ ~fr.self.use_peepholes \/ fr.self.w_f_diag /= None THEN fr
  ELSE make_ln(make_ln(make_diag(fr), "ln_p1", "p1_norm"), "ln_p2", "p2_norm")

\* the peephole branch: c = forget_gate + input_gate * activation(j), where
\* forget_gate and input_gate stand for the two sigmoid(...) terms
peephole_cell_state(fr, forget_gate, input_gate) ==
  new_c(fr, forget_gate, input_gate, add(forget_gate, multiply(input_gate, activation(fr.j))))

\* with peepholes:
\*   c = sigmoid(f + forget_bias + ln_p1(w_f_diag * c_prev))
\*       + sigmoid(i + ln_p2(w_i_diag * c_prev)) * activation(j)
\* without: c = sigmoid(f + forget_bias) * c_prev + sigmoid(i) * activation(j)
ln_new_c(fr) ==
  IF fr.err /= "ok" THEN fr
  ELSE IF fr.self.use_peepholes
  THEN peephole_cell_state(
         [fr EXCEPT !.used = @ \cup {fr.self.w_f_diag[1], fr.self.w_i_diag[1]}
                               \cup LN_used(fr.self.ln_p1[1]) \cup LN_used(fr.self.ln_p2[1]),
                    !.peep_f = LN_call(fr.store, fr.self.ln_p1[1],
                                       multiply(var_row(fr.store, fr.self.w_f_diag[1]), fr.c_prev)),
                    !.peep_i = LN_call(fr.store, fr.self.ln_p2[1],
                                       multiply(var_row(fr.store, fr.self.w_i_diag[1]), fr.c_prev))],
         sigmoid(add(add_scalar(fr.f, forget_bias),
                     LN_call(fr.store, fr.self.ln_p1[1],
                             multiply(var_row(fr.store, fr.self.w_f_diag[1]), fr.c_prev)))),
         sigmoid(add(fr.i, LN_call(fr.store, fr.self.ln_p2[1],
                                   multiply(var_row(fr.store, fr.self.w_i_diag[1]), fr.c_prev)))))
  ELSE cell_state(fr, sigmoid(add_scalar(fr.f, forget_bias)), sigmoid(fr.i))

\* c = self._ln_c(c)
apply_c_norm(fr) ==
  IF fr.err /= "ok" THEN fr
  ELSE [fr EXCEPT !.c = LN_call(fr.store, fr.self.ln_c[1], fr.c),
                  !.used = @ \cup LN_used(fr.self.ln_c[1])]

\* if self._ln_c is None: self._ln_c = Layer_Normalization(...); c = self._ln_c(c)
ln_norm_c(fr) == apply_c_norm(make_ln(fr, "ln_c", "c_norm"))

\* LN_LSTMCell.call(inputs, state)
LN_LSTMCell_call(fr) ==
  lstm_new_state(lstm_proj(lstm_m(ln_norm_c(ln_new_c(ln_make_diag(norm_gates(
    lstm_matrix(make_linear1(split_state(fr))))))))))

\* --------------------------------------------------------------- H_LSTMCell
hyper_num_units == 1
hyper_embed_size == 1
\* init_gamma = 0.10 in _hyper_norm, on the unit grid
init_gamma == 0

\* __init__: the state is always a tuple, each part followed by the auxiliary
\* cell's part; neither self._linear nor self._linear2 is set
H_StateSize(num_units, num_proj, hyper_units) ==
  IF Truthy(num_proj)
  THEN [is_tuple |-> TRUE, cols |-> <<num_units + hyper_units, num_proj[1] + hyper_units>>]
  ELSE [is_tuple |-> TRUE, cols |-> <<num_units + hyper_units, num_units + hyper_units>>]

H_LSTMCell(num_units, use_peepholes, cell_clip, num_proj, proj_clip) ==
  [kind |-> "H_LSTMCell", built |-> FALSE,
   num_units |-> num_units, use_peepholes |-> use_peepholes, cell_clip |-> cell_clip,
   num_proj |-> num_proj, proj_clip |-> proj_clip, state_is_tuple |-> TRUE,
   hyper_num_units |-> hyper_num_units, hyper_embed_size |-> hyper_embed_size,
   state_size |-> H_StateSize(num_units, num_proj, hyper_num_units),
   output_size |-> OutputSize(num_units, num_proj),
   w_f_diag |-> None, w_i_diag |-> None, w_o_diag |-> None,
   ln_i |-> None, ln_j |-> None, ln_f |-> None, ln_o |-> None,
   ln_p1 |-> None, ln_p2 |-> None, ln_c |-> None,
   hyper_cell |-> None]

\* matmul(x, w) [+ b], left in ret
h_linear_out(fr, x, w, b, use_bias) ==
  IF fr.err /= "ok" THEN fr
  ELSE [fr EXCEPT !.ret = IF use_bias THEN add(matmul(fr.store, x, w), var_row(fr.store, b))
                          ELSE matmul(fr.store, x, w),
                  !.used = @ \cup (IF use_bias THEN {w, b} ELSE {w})]

\* _h_linear(x, output_size, scope, init_w, weight_start, use_bias, bias_start):
\* tf.get_variable of super_linear_w [x_size, output_size] and, with use_bias,
\* of super_linear_b; then matmul(x, w) [+ b]
h_linear(fr, x, output_size, scope, w_init, use_bias, bias_start) ==
  h_linear_out(IF use_bias
               THEN get_variable(get_variable(fr, scope \o "/super_linear_w",
                                              <<Len(x), output_size>>, w_init),
                                 scope \o "/super_linear_b", <<output_size>>, constant_initializer(bias_start))
               ELSE get_variable(fr, scope \o "/super_linear_w", <<Len(x), output_size>>, w_init),
               x, fr.scope \o scope \o "/super_linear_w", fr.scope \o scope \o "/super_linear_b",
               use_bias)

\* alpha = _h_linear(zw, num_units, weight init_gamma / embedding_size, no bias)
hyper_alpha(fr, scope) ==
  IF fr.err /= "ok" THEN fr
  ELSE h_linear(fr, fr.ret, fr.self.num_units, scope \o "/alpha",
                constant_initializer(init_gamma \div fr.self.hyper_embed_size), FALSE, 0)

\* result = tf.multiply(alpha, layer)
hyper_scale(fr, layer) ==
  IF fr.err /= "ok" THEN fr ELSE [fr EXCEPT !.ret = multiply(fr.ret, layer)]

\* _hyper_norm(layer, hyper_output, embedding_size, num_units, scope):
\* zw = linear(hyper_output) with weight 0 and bias 1; alpha = linear(zw);
\* ret = alpha * layer
hyper_norm(fr, layer, scope) ==
  hyper_scale(hyper_alpha(h_linear(fr, fr.h_out, fr.self.hyper_embed_size,
                                   scope \o "/zw", constant_initializer(0), TRUE, 1),
                          scope), layer)

\* beta = _h_linear(zb, num_units, weight 0, no bias)
hyper_beta(fr, scope) ==
  IF fr.err /= "ok" THEN fr
  ELSE h_linear(fr, fr.ret, fr.self.num_units, scope \o "/beta",
                constant_initializer(0), FALSE, 0)

\* return layer + beta
hyper_shift(fr, layer) ==
  IF fr.err /= "ok" THEN fr ELSE [fr EXCEPT !.ret = add(layer, fr.ret)]

\* _hyper_bias(layer, hyper_output, embedding_size, num_units, scope):
\* zb = linear(hyper_output), gaussian weight; beta = linear(zb), weight 0;
\* ret = layer + beta
hyper_bias(fr, layer, scope) ==
  hyper_shift(hyper_beta(h_linear(fr, fr.h_out, fr.self.hyper_embed_size,
                                  scope \o "/zb", random_initializer(fr.w), FALSE, 0),
                         scope), layer)

\* c_t, m_t = state; c_prev, m_prev = c_t[:, 0:num_units], m_t[:, 0:num_units];
\* hyper_state = LSTMStateTuple(c_t[:, num_units:], m_t[:, num_units:])
h_split_state(fr) ==
  LET c_t == fr.state.parts[1]
      m_t == fr.state.parts[2]
      n == fr.self.num_units
  IN  [fr EXCEPT !.c_prev = slice_head(c_t, n), !.m_prev = slice_head(m_t, n),
                 !.hyper_state = Some([is_tuple |-> TRUE,
                                       parts |-> <<slice_tail(c_t, n), slice_tail(m_t, n)>>])]

\* h_out, new_hyper_state = the auxiliary cell's results; its variables and
\* its built flag stay with the auxiliary cell
hyper_result(fr, hf) ==
  [fr EXCEPT !.self.hyper_cell = Some([hf.self EXCEPT !.built = @ \/ hf.err = "ok"]),
             !.store = hf.store, !.weights = hf.weights, !.err = hf.err,
             !.used = @ \cup hf.used,
             !.h_out = hf.m, !.new_hyper_state = hf.new_state]

\* self._hyper_cell(x_hat, hyper_state), under the scope "lstm_cell"
hyper_call(fr, hc) ==
  hyper_result(fr, LSTMCell_call(Frame(hc, fr.store, fr.weights, fr.scope \o "lstm_cell/",
                                       hc.built, fr.inputs \o fr.m_prev,
                                       fr.hyper_state[1], fr.w)))

\* if self._hyper_cell is None: self._hyper_cell = LSTMCell(hyper_num_units)
\* h_out, new_hyper_state = self._hyper_cell(x_hat, hyper_state)
h_hyper_cell(fr) ==
  IF fr.err /= "ok" THEN fr
  ELSE IF fr.self.hyper_cell = None
  THEN hyper_call(fr, LSTMCell(fr.self.hyper_num_units, FALSE, None, None, None, TRUE))
  ELSE hyper_call(fr, fr.self.hyper_cell[1])

\* W_xh, W_hh, W_bias by tf.get_variable on every call
h_variables(fr) ==
  IF fr.err /= "ok" THEN fr
  ELSE get_variable(get_variable(get_variable(
         [fr EXCEPT !.used = @ \cup {fr.scope \o "W_xh", fr.scope \o "W_hh", fr.scope \o "W_bias"}],
         "W_xh", <<Len(fr.inputs), 4 * fr.self.num_units>>, random_initializer(fr.w)),
         "W_hh", <<Len(fr.inputs), 4 * fr.self.num_units>>, random_initializer(fr.w)),
         "W_bias", <<4 * fr.self.num_units>>, constant_initializer(0))

\* a gate's first term, and a further term added to it
first_term(fr, gate) == IF fr.err /= "ok" THEN fr ELSE [fr EXCEPT ![gate] = fr.ret]
add_term(fr, gate) == IF fr.err /= "ok" THEN fr ELSE [fr EXCEPT ![gate] = add(@, fr.ret)]

\* xh = matmul(inputs, W_xh); ix, jx, fx, ox = split(xh, 4), each scaled by
\* _hyper_norm
h_x_terms(fr) ==
  IF fr.err /= "ok" THEN fr
  ELSE first_term(hyper_norm(first_term(hyper_norm(first_term(hyper_norm(first_term(hyper_norm(
         fr, split4(matmul(fr.store, fr.inputs, fr.scope \o "W_xh"), 1), "hyper_ix"), "i"),
             split4(matmul(fr.store, fr.inputs, fr.scope \o "W_xh"), 2), "hyper_jx"), "j"),
             split4(matmul(fr.store, fr.inputs, fr.scope \o "W_xh"), 3), "hyper_fx"), "f"),
             split4(matmul(fr.store, fr.inputs, fr.scope \o "W_xh"), 4), "hyper_ox"), "o")

\* hh = matmul(inputs, W_hh); ih, jh, fh, oh = split(hh, 4), each scaled by
\* _hyper_norm
h_h_terms(fr) ==
  IF fr.err /= "ok" THEN fr
  ELSE add_term(hyper_norm(add_term(hyper_norm(add_term(hyper_norm(add_term(hyper_norm(
         fr, split4(matmul(fr.store, fr.inputs, fr.scope \o "W_hh"), 1), "hyper_ih"), "i"),
             split4(matmul(fr.store, fr.inputs, fr.scope \o "W_hh"), 2), "hyper_jh"), "j"),
             split4(matmul(fr.store, fr.inputs, fr.scope \o "W_hh"), 3), "hyper_fh"), "f"),
             split4(matmul(fr.store, fr.inputs, fr.scope \o "W_hh"), 4), "hyper_oh"), "o")

\* ib, jb, fb, ob = split(bias, 4), each shifted by _hyper_bias;
\* i = ix + ih + ib, and so on for j, f, o
h_b_terms(fr) ==
  IF fr.err /= "ok" THEN fr
  ELSE add_term(hyper_bias(add_term(hyper_bias(add_term(hyper_bias(add_term(hyper_bias(
         fr, split4(var_row(fr.store, fr.scope \o "W_bias"), 1), "hyper_ib"), "i"),
             split4(var_row(fr.store, fr.scope \o "W_bias"), 2), "hyper_jb"), "j"),
             split4(var_row(fr.store, fr.scope \o "W_bias"), 3), "hyper_fb"), "f"),
             split4(var_row(fr.store, fr.scope \o "W_bias"), 4), "hyper_ob"), "o")

h_gates(fr) == h_b_terms(h_h_terms(h_x_terms(h_variables(fr))))

\* if self._num_proj is not None: `if self._linear is None:` reads an attribute
\* __init__ never set; were it set, vs.get_variable_scope(scope) takes no
\* argument, and self._linear2 is never set either
h_proj(fr) ==
  IF fr.err /= "ok" \/ fr.self.num_proj = None THEN fr
  ELSE IF "linear" \notin DOMAIN fr.self
  THEN [fr EXCEPT !.err = "AttributeError: no attribute _linear"]
  ELSE IF fr.self.linear = None
  THEN [fr EXCEPT !.err = "TypeError: get_variable_scope() takes no arguments"]
  ELSE [fr EXCEPT !.err = "AttributeError: no attribute _linear2"]

\* hyper_c, hyper_h = new_hyper_state
\* new_state = LSTMStateTuple(concat([c, hyper_c], 1), concat([m, hyper_h], 1))
h_new_state(fr) ==
  IF fr.err /= "ok" THEN fr
  ELSE [fr EXCEPT !.new_state =
          Some([is_tuple |-> TRUE,
                parts |-> <<fr.c \o fr.new_hyper_state[1].parts[1],
                            fr.m \o fr.new_hyper_state[1].parts[2]>>])]

\* H_LSTMCell.call(inputs, state)
H_LSTMCell_call(fr) ==
  h_new_state(h_proj(lstm_m(ln_norm_c(ln_new_c(ln_make_diag(norm_gates(
    h_gates(h_hyper_cell(h_split_state(fr))))))))))

\* ------------------------------------------------------ construction, calls
Pattern(p, len) ==
  [k \in 1..len |-> IF p = "zeros" THEN 0
                    ELSE IF p = "ramp" THEN k
                    ELSE IF k % 2 = 1 THEN -2 ELSE 1]

\* a state of the shape the cell's state_size declares
StateOf(size, p) ==
  [is_tuple |-> size.is_tuple, parts |-> [k \in DOMAIN size.cols |-> Pattern(p, size.cols[k])]]

\* the states a caller passes: of the declared shape, or the state the
\* previous timestep returned
States == {StateOf(self.state_size, p) : p \in Patterns}
            \cup (IF last.new_state /= None THEN {last.new_state[1]} ELSE {})

\* the values a random initializer may give the variables a call creates; a
\* built layer's scope reuses, so its calls create none
InitialValues == IF self.built THEN {0} ELSE WeightVals

NoCall ==
  [err |-> "none", inputs |-> None, state |-> None, output |-> None, new_state |-> None,
   used |-> {}, created |-> {}, c_prev |-> None, m_prev |-> None,
   i |-> None, j |-> None, f |-> None, o |-> None,
   forget_gate |-> None, input_gate |-> None, c_new |-> None, c |-> None,
   m_cell |-> None, m_proj |-> None,
   peep_f |-> None, peep_i |-> None, peep_o |-> None,
   hyper_state |-> None, new_hyper_state |-> None]

Init ==
  /\ self \in {LSTMCell(n, p, cc, np, pc, t) : n \in UnitsSet, p \in BOOLEAN, cc \in CellClipSet,
                                              np \in NumProjSet, pc \in ProjClipSet, t \in BOOLEAN}
        \cup {LN_LSTMCell(n, p, cc, np, pc, t) : n \in UnitsSet, p \in BOOLEAN, cc \in CellClipSet,
                                              np \in NumProjSet, pc \in ProjClipSet, t \in BOOLEAN}
        \cup {H_LSTMCell(n, p, cc, np, pc) : n \in UnitsSet, p \in BOOLEAN, cc \in CellClipSet,
                                             np \in NumProjSet, pc \in ProjClipSet}
  /\ store = <<>>
  /\ weights = {}
  /\ calls = 0
  /\ last = NoCall

\* RNNCell.__call__ -> Layer.__call__: the cell's scope is entered with
\* reuse=True once the layer is built; call runs; a call that returns marks
\* the layer built.  What the call did is kept in `last`.
Invoke(fr) ==
  /\ self' = [fr.self EXCEPT !.built = @ \/ fr.err = "ok"]
  /\ store' = fr.store
  /\ weights' = fr.weights
  /\ calls' = calls + 1
  /\ last' = [err |-> fr.err, inputs |-> fr.inputs, state |-> fr.state,
              output |-> IF fr.err = "ok" THEN Some(fr.m) ELSE None,
              new_state |-> fr.new_state,
              used |-> fr.used, created |-> DOMAIN fr.store \ DOMAIN store,
              c_prev |-> fr.c_prev, m_prev |-> fr.m_prev,
              i |-> fr.i, j |-> fr.j, f |-> fr.f, o |-> fr.o,
              forget_gate |-> fr.forget_gate, input_gate |-> fr.input_gate,
              c_new |-> fr.c_new, c |-> fr.c, m_cell |-> fr.m_cell, m_proj |-> fr.m_proj,
              peep_f |-> fr.peep_f, peep_i |-> fr.peep_i, peep_o |-> fr.peep_o,
              hyper_state |-> fr.hyper_state, new_hyper_state |-> fr.new_hyper_state]

CallLSTMCell ==
  /\ self.kind = "LSTMCell"
  /\ calls < MaxCalls
  /\ \E x \in InputVals, state \in States, w \in InitialValues :
       Invoke(LSTMCell_call(Frame(self, store, weights, "", self.built,
                                  Fill(InputSize, x), state, w)))

CallLN_LSTMCell ==
  /\ self.kind = "LN_LSTMCell"
  /\ calls < MaxCalls
  /\ \E x \in InputVals, state \in States, w \in InitialValues :
       Invoke(LN_LSTMCell_call(Frame(self, store, weights, "", self.built,
                                     Fill(InputSize, x), state, w)))

CallH_LSTMCell ==
  /\ self.kind = "H_LSTMCell"
  /\ calls < MaxCalls
  /\ \E x \in InputVals, state \in States, w \in InitialValues :
       Invoke(H_LSTMCell_call(Frame(self, store, weights, "", self.built,
                                    Fill(InputSize, x), state, w)))

Next == CallLSTMCell \/ CallLN_LSTMCell \/ CallH_LSTMCell

Spec == Init /\ [][Next]_vars

\* ------------------------------------------------------------------ claims
IsLSTM == self.kind \in {"LSTMCell", "LN_LSTMCell"}
Returned == last.err = "ok"

AbsLeq(t, b) == \A k \in DOMAIN t : -b <= t[k] /\ t[k] <= b
Shape(st) == [is_tuple |-> st.is_tuple, cols |-> [k \in DOMAIN st.parts |-> Len(st.parts[k])]]
StateC(st, n) == IF st.is_tuple THEN st.parts[1] ELSE SubSeq(st.parts[1], 1, n)
StateM(st, n) == IF st.is_tuple THEN st.parts[2] ELSE SubSeq(st.parts[1], n + 1, Len(st.parts[1]))

\* C1: in an LSTMCell or LN_LSTMCell every weight variable is allocated during
\* the first invocation only.  After the first call the cell owns every
\* variable of the store; a later call leaves the store and the owned set as
\* they are, creates nothing, reads only owned variables, and a call that
\* returns has read exactly the owned variables.
C1_AllocatedOnce ==
  [][(IsLSTM /\ calls >= 1) =>
       /\ weights = DOMAIN store
       /\ store' = store
       /\ weights' = weights
       /\ last'.created = {}
       /\ last'.used \subseteq weights
       /\ (last'.err = "ok" => last'.used = weights)]_vars

C1_Witness ==
  /\ self.kind = "LN_LSTMCell" /\ calls = 2 /\ Returned
  /\ self.use_peepholes /\ self.num_proj = Some(1)
  /\ "projection/kernel" \in weights /\ "p1_norm/gain" \in weights

\* C2: in an H_LSTMCell a second or later call creates no new variable and does
\* not fail because a variable already exists.
C2_Claim ==
  (self.kind = "H_LSTMCell" /\ calls >= 2) =>
     /\ last.created = {}
     /\ last.err /= "ValueError: variable already exists"

\* C3: in an LSTMCell or LN_LSTMCell the returned output has num_proj columns
\* if num_proj was set and num_units columns otherwise, and that count is the
\* cell's output_size.
C3_Claim ==
  (IsLSTM /\ calls >= 1 /\ Returned) =>
     /\ Len(last.output[1]) = OptVal(self.num_proj, self.num_units)
     /\ Len(last.output[1]) = self.output_size

\* C4: in an LSTMCell or LN_LSTMCell the returned state has the type and shape
\* of the state passed in and of state_size: a tuple with (num_units, output
\* columns) columns, or one tensor with num_units + output columns columns.
C4_Claim ==
  (IsLSTM /\ calls >= 1 /\ Returned) =>
     /\ Shape(last.new_state[1]) = self.state_size
     /\ Shape(last.new_state[1]) = Shape(last.state)
     /\ Shape(last.new_state[1]).cols =
          IF self.state_is_tuple THEN <<self.num_units, Len(last.output[1])>>
                                 ELSE <<self.num_units + Len(last.output[1])>>

\* C5: in every configuration of H_LSTMCell the call returns a state of the
\* sizes state_size declares, and splitting a state of those sizes gives back
\* the main c and m and the auxiliary c and h it was concatenated from, the
\* auxiliary parts having hyper_num_units columns each.
C5_Claim ==
  (self.kind = "H_LSTMCell" /\ calls >= 1) =>
     LET c_t == last.state.parts[1]
         m_t == last.state.parts[2]
         n == self.num_units
         h == self.hyper_num_units
     IN  /\ Returned
         /\ Shape(last.new_state[1]) = self.state_size
         /\ last.c_prev = SubSeq(c_t, 1, Len(c_t) - h)
         /\ last.m_prev = SubSeq(m_t, 1, Len(m_t) - h)
         /\ last.hyper_state[1].parts = <<SubSeq(c_t, Len(c_t) - h + 1, Len(c_t)),
                                          SubSeq(m_t, Len(m_t) - h + 1, Len(m_t))>>
         /\ Len(last.c_prev) = n

\* C6: an H_LSTMCell given num_proj returns an output of num_proj columns,
\* within [-proj_clip, proj_clip] when proj_clip is given; with num_proj None
\* the output has num_units columns.
C6_Claim ==
  (self.kind = "H_LSTMCell" /\ calls >= 1) =>
     /\ Returned
     /\ Len(last.output[1]) = OptVal(self.num_proj, self.num_units)
     /\ (self.num_proj /= None /\ self.proj_clip /= None)
           => AbsLeq(last.output[1], self.proj_clip[1])

\* C7: in every cell variant, with or without peepholes, the new cell state
\* before clipping or normalization is
\* forget_gate * c_prev + input_gate * activation(j).
C7_Claim ==
  (calls >= 1 /\ last.c_new /= None) =>
     last.c_new = add(multiply(last.forget_gate, last.c_prev),
                      multiply(last.input_gate, activation(last.j)))

\* C8: in an LSTMCell with cell_clip set, every element of the c component of
\* the returned state lies in [-cell_clip, cell_clip], and the output m is
\* computed from that clipped c: m = sigmoid(o [+ w_o_diag * c]) * activation(c).
C8_CellClip ==
  (self.kind = "LSTMCell" /\ calls >= 1 /\ Returned /\ self.cell_clip /= None) =>
     LET c == StateC(last.new_state[1], self.num_units)
         og == IF self.use_peepholes
               THEN sigmoid(add(last.o, multiply(var_row(store, self.w_o_diag[1]), c)))
               ELSE sigmoid(last.o)
     IN  /\ AbsLeq(c, self.cell_clip[1])
         /\ last.m_cell = multiply(og, activation(c))

C8_Witness ==
  /\ self.kind = "LSTMCell" /\ calls >= 1 /\ Returned /\ self.cell_clip = Some(1)
  /\ ~AbsLeq(last.c_new, 1)
  /\ self.use_peepholes

\* C9: in an LN_LSTMCell or H_LSTMCell with cell_clip given, every element of
\* the cell state used for the output lies in [-cell_clip, cell_clip].
C9_Claim ==
  (self.kind \in {"LN_LSTMCell", "H_LSTMCell"} /\ calls >= 1
     /\ self.cell_clip /= None /\ last.m_cell /= None) =>
     AbsLeq(last.c, self.cell_clip[1])

\* C10: in an LSTMCell or LN_LSTMCell with num_proj > 0 and proj_clip given,
\* every element of the output and of the m component of the returned state
\* lies in [-proj_clip, proj_clip]; with num_proj None no projection is made
\* and the output is the cell's m whatever proj_clip is.
C10_ProjClip ==
  (IsLSTM /\ calls >= 1 /\ Returned) =>
     /\ (Truthy(self.num_proj) /\ self.proj_clip /= None) =>
           /\ AbsLeq(last.output[1], self.proj_clip[1])
           /\ AbsLeq(StateM(last.new_state[1], self.num_units), self.proj_clip[1])
     /\ self.num_proj = None =>
           /\ last.output[1] = last.m_cell
           /\ StateM(last.new_state[1], self.num_units) = last.m_cell

C10_Witness ==
  /\ IsLSTM /\ calls >= 1 /\ Returned
  /\ self.num_proj = Some(2) /\ self.proj_clip = Some(1)
  /\ ~AbsLeq(last.m_proj, 1)
  /\ AbsLeq(last.output[1], 1)

\* the Layer_Normalization objects the cell holds
Normalizations ==
  {self[k][1] : k \in {x \in {"ln_i", "ln_j", "ln_f", "ln_o", "ln_p1", "ln_p2", "ln_c"} :
                         x \in DOMAIN self /\ self[x] /= None}}

\* C11: in an LN_LSTMCell with use_peepholes each of the three peephole terms
\* passes through one of the cell's Layer_Normalizations before it is added to
\* its gate pre-activation: w_f_diag * c_prev for the forget gate,
\* w_i_diag * c_prev for the input gate, w_o_diag * c for the output gate.
C11_Claim ==
  (self.kind = "LN_LSTMCell" /\ self.use_peepholes /\ calls >= 1 /\ Returned) =>
     \E p1, p2, p3 \in Normalizations :
        /\ last.peep_f = LN_call(store, p1, multiply(var_row(store, self.w_f_diag[1]), last.c_prev))
        /\ last.peep_i = LN_call(store, p2, multiply(var_row(store, self.w_i_diag[1]), last.c_prev))
        /\ last.peep_o = LN_call(store, p3, multiply(var_row(store, self.w_o_diag[1]), last.c))
        /\ last.forget_gate = sigmoid(add(add_scalar(last.f, forget_bias), last.peep_f))
        /\ last.input_gate = sigmoid(add(last.i, last.peep_i))
        /\ last.m_cell = multiply(sigmoid(add(last.o, last.peep_o)), activation(last.c))

====
